---- MODULE Spec2Model ----
(***************************************************************************)
(* Model of src/app.py: the Yahoo Finance quote viewer.                    *)
(*                                                                         *)
(* Strings are sequences of one-character strings so that Python's string  *)
(* comparison (used by sort_values and sorted) is computed, not assumed.   *)
(* An optional value (Python None or a value) is <<>> or <<v>>.            *)
(***************************************************************************)
EXTENDS Integers, Sequences, FiniteSets, TLC

VARIABLES
    now,            \* time.time(), in seconds
    ttl,            \* the sidebar's "cache TTL" number_input value
    cache,          \* st.cache_data store of fetch_quotes_cached, by key
    stored,         \* history: what became of the last value stored for a key
    session_state,  \* st.session_state: yf_sess, yf_crumb, yf_crumb_ts, last_ttl
    pc,             \* position of the script run inside fetch_quotes_cached
    fr,             \* local variables of the running fetch_quotes_cached call
    obs,            \* history of the running / last call: requests sent, outcome
    runs,           \* number of presses of the fetch button so far
    ticks,          \* number of clock advances so far
    rc_pc,          \* build_df_from_results called on its own: position
    rc_results,     \*   its argument results
    rc_requested,   \*   its argument requested_symbols
    rc_df,          \*   its return value
    nz_pc,          \* load_symbols_from_text called on its own: position
    nz_text,        \*   its argument text
    nz_symbols      \*   its return value

vars == <<now, ttl, cache, stored, session_state, pc, fr, obs, runs, ticks,
          rc_pc, rc_results, rc_requested, rc_df, nz_pc, nz_text, nz_symbols>>

mainVars == <<now, ttl, cache, stored, session_state, pc, fr, obs, runs, ticks>>
rcVars == <<rc_pc, rc_results, rc_requested, rc_df>>
nzVars == <<nz_pc, nz_text, nz_symbols>>
pureVars == <<rcVars, nzVars>>

(***************************************************************************)
(* Bounds of the model.                                                    *)
(***************************************************************************)
MaxTicks == 1           \* clock advances explored
MaxRuns == 2            \* presses of the fetch button explored
MaxQuoteRuns == 1       \* the same, where every upstream answer is explored
MaxResults == 3         \* provider records handed to build_df_from_results
MaxTextLen == 6         \* characters of a text handed to load_symbols_from_text

(***************************************************************************)
(* Python values.                                                          *)
(***************************************************************************)
None == <<>>
Some(v) == <<v>>

\* The characters that occur, in code point order.
\* "sup2" stands for the one character U+00B2 (superscript two).
CharOrder == <<"\n", " ", "#", ".", "0", "1", "2", "3", "4", "5", "6", "7", "8", "9",
               "A", "L", "P", "T", "Z", "sup2">>

Ord(c) == CHOOSE i \in 1..Len(CharOrder) : CharOrder[i] = c

\* Python's str < str: lexicographic by code point, a proper prefix is smaller.
RECURSIVE StrLess(_, _)
StrLess(a, b) ==
    IF b = <<>> THEN FALSE
    ELSE IF a = <<>> THEN TRUE
    ELSE IF Ord(Head(a)) # Ord(Head(b)) THEN Ord(Head(a)) < Ord(Head(b))
    ELSE StrLess(Tail(a), Tail(b))

StrLeq(a, b) == a = b \/ StrLess(a, b)

S7203 == <<"7", "2", "0", "3", ".", "T">>
S9984 == <<"9", "9", "8", "4", ".", "T">>
SAAPL == <<"A", "A", "P", "L">>
SZ == <<"Z">>                         \* a symbol nobody requested

Symbols == {S7203, S9984, SAAPL}
ProviderSymbols == Symbols \cup {SZ}

(***************************************************************************)
(* fmt_jst_from_epoch: None for a falsy epoch, else the JST wall clock,    *)
(* here as <<day number, second of the day>> of epoch + 9h.                *)
(***************************************************************************)
JstOffset == 32400

fmt_jst_from_epoch(epoch) ==
    IF epoch = None \/ epoch = Some(0) THEN None
    ELSE Some(<<(epoch[1] + JstOffset) \div 86400, (epoch[1] + JstOffset) % 86400>>)

(***************************************************************************)
(* Provider records (entries of quoteResponse.result).                     *)
(***************************************************************************)
FullQuote(sym) ==
    [symbol |-> sym, shortName |-> Some("short"), longName |-> Some("long"),
     regularMarketPrice |-> Some(100), regularMarketChange |-> Some(1),
     regularMarketChangePercent |-> Some(1), marketState |-> Some("REGULAR"),
     regularMarketVolume |-> Some(5000), currency |-> Some("JPY"),
     regularMarketTime |-> Some(86400)]

\* a record in which the provider omitted fields (shortName empty, epoch 0)
SparseQuote(sym) ==
    [symbol |-> sym, shortName |-> Some(""), longName |-> Some("long"),
     regularMarketPrice |-> None, regularMarketChange |-> None,
     regularMarketChangePercent |-> None, marketState |-> None,
     regularMarketVolume |-> None, currency |-> None,
     regularMarketTime |-> Some(0)]

\* q.get("shortName") or q.get("longName")
NameOf(q) ==
    IF q.shortName # None /\ q.shortName # Some("") THEN q.shortName ELSE q.longName

RowOf(q) ==
    [symbol |-> q.symbol, name |-> NameOf(q), price |-> q.regularMarketPrice,
     change |-> q.regularMarketChange, change_pct |-> q.regularMarketChangePercent,
     market_state |-> q.marketState, volume |-> q.regularMarketVolume,
     currency |-> q.currency, time_jst |-> fmt_jst_from_epoch(q.regularMarketTime)]

\* variant: a row for a symbol that was not returned carries a price of 0
MissingRowPriced(s) ==
    [symbol |-> s, name |-> None, price |-> Some(0), change |-> None,
     change_pct |-> None, market_state |-> None, volume |-> None,
     currency |-> None, time_jst |-> None]

\* lines 152-162: the row of a requested symbol that was not returned
MissingRow(s) ==
    [symbol |-> s, name |-> None, price |-> None, change |-> None,
     change_pct |-> None, market_state |-> None, volume |-> None,
     currency |-> None, time_jst |-> None]

\* df.sort_values("symbol"): insertion of each row behind the rows not greater
RECURSIVE InsertRow(_, _)
InsertRow(row, sorted) ==
    IF sorted = <<>> THEN <<row>>
    ELSE IF StrLess(row.symbol, Head(sorted).symbol) THEN <<row>> \o sorted
    ELSE <<Head(sorted)>> \o InsertRow(row, Tail(sorted))

RECURSIVE SortBySymbol(_)
SortBySymbol(rows) ==
    IF rows = <<>> THEN <<>>
    ELSE InsertRow(rows[Len(rows)], SortBySymbol(SubSeq(rows, 1, Len(rows) - 1)))

RECURSIVE MapRows(_)
MapRows(results) ==
    IF results = <<>> THEN <<>>
    ELSE <<RowOf(Head(results))>> \o MapRows(Tail(results))

GotSymbols(results) == {results[i].symbol : i \in 1..Len(results)}

\* [s for s in requested_symbols if s not in got], as rows
RECURSIVE MissingRows(_, _)
MissingRows(requested, got) ==
    IF requested = <<>> THEN <<>>
    ELSE (IF Head(requested) \in got THEN <<>> ELSE <<MissingRow(Head(requested))>>)
         \o MissingRows(Tail(requested), got)

build_df_from_results(results, requested_symbols) ==
    SortBySymbol(MapRows(results)
                 \o MissingRows(requested_symbols, GotSymbols(results)))

(***************************************************************************)
(* Program constants.                                                      *)
(***************************************************************************)
DecoratorTTL == 60      \* @st.cache_data(ttl=60)
MaxAgeSec == 1800       \* get_crumb(max_age_sec=1800)
CrumbTries == 2         \* for _ in range(2)
DefaultTtl == 60        \* number_input(value=60)

\* values of the TTL number_input (10..600 in steps of 10) that are explored
TtlValues == {10, 60, 120}
\* how far the clock may move in one step: within the cache's lifetime, or
\* past the crumb's
ShortTicks == {30}
LongTicks == {1800}

\* chunk sizes handed to fetch_quotes_cached: one symbol or both in a request
ChunkSizes == {1, 2}

\* the symbol lists load_symbols_from_text hands to the script (sorted, no duplicates)
SymbolSets == {<<>>, <<S7203, S9984>>}

\* for the chunking alone: a list that leaves a smaller last chunk, and a chunk
\* size larger than a list
ChunkSymbolSets == {<<S7203, S9984>>, <<S7203, S9984, SAAPL>>}
ChunkSizesAll == {1, 2, 3}

Keys == ((SymbolSets \cup ChunkSymbolSets) \ {<<>>}) \X (ChunkSizes \cup ChunkSizesAll)

NoCrumb == <<>>                       \* None, "" or a popped key: all falsy
\* r.text of the crumb endpoint: empty, blank, a token, a token in blanks
CrumbBodies == {<<>>, <<" ">>, <<"A">>, <<" ", "Z", " ">>}

\* str.strip(): leading and trailing white space removed
RECURSIVE LStrip(_)
LStrip(s) == IF s # <<>> /\ Head(s) = " " THEN LStrip(Tail(s)) ELSE s

RECURSIVE RStrip(_)
RStrip(s) ==
    IF s # <<>> /\ s[Len(s)] = " " THEN RStrip(SubSeq(s, 1, Len(s) - 1)) ELSE s

Strip(s) == RStrip(LStrip(s))

QuoteStatuses == {200, 401, 403, 429, 500}
CrumbStatuses == {200, 429, 500}
BootStatuses == {200, 503}

\* requests' raise_for_status: 4xx and 5xx raise HTTPError
IsHTTPError(status) == status >= 400 /\ status < 600

\* variant: a 429 is not raised
RaiseForStatusNot429(status) ==
    IF IsHTTPError(status) /\ status # 429 THEN "HTTPError" ELSE ""

\* r.raise_for_status(): the exception raised for a status, "" if none
RaiseForStatus(status) == IF IsHTTPError(status) THEN "HTTPError" ELSE ""

\* variants: a retry after every 401 or 403; a retry on 429 as well
NeedsRetryAnyStage(stage, status) == status \in {401, 403}
NeedsRetryOn429(stage, status) == stage = "first" /\ status \in {401, 403, 429}

\* quote_once line 116: a retry only for the first answer, only on 401 or 403
NeedsRetry(stage, status) == stage = "first" /\ status \in {401, 403}

\* variant: the cached crumb is kept
DropCrumbKept(ss) == ss

\* quote_once line 118: st.session_state["yf_crumb"] = None
DropCrumb(ss) == [ss EXCEPT !.yf_crumb = NoCrumb]

Min(a, b) == IF a < b THEN a ELSE b
Max(a, b) == IF a > b THEN a ELSE b

\* variant: only the full chunks
chunk_listFullOnly(items, size) ==
    [k \in 1..(Len(items) \div size) |->
        SubSeq(items, (k - 1) * size + 1, k * size)]

\* chunk_list: [items[i : i + size] for i in range(0, len(items), size)]

chunk_list(items, size) ==
    [k \in 1..((Len(items) + size - 1) \div size) |->
        SubSeq(items, (k - 1) * size + 1, Min(k * size, Len(items)))]

(***************************************************************************)
(* The st.cache_data store.                                                *)
(***************************************************************************)
NoEntry == [has |-> FALSE, ts |-> 0, df |-> <<>>]
EmptyCache == [k \in Keys |-> NoEntry]

\* history of a key's entry: "no" (none stored, or discarded by the button),
\* "kept" (stored and still in the store), "ttl_changed" (discarded because
\* the configured TTL changed)
NothingStored == [k \in Keys |-> "no"]

\* an entry is served while its age is below the decorator's ttl
CacheHit(entry, t) == entry.has /\ (t - entry.ts) < DecoratorTTL

\* variant: a cached crumb never expires
CrumbValidNoAge(crumb, ts, t) == crumb # NoCrumb

\* get_crumb line 88: if crumb and (now - ts) < max_age_sec
CrumbValid(crumb, ts, t) == crumb # NoCrumb /\ (t - ts) < MaxAgeSec

(***************************************************************************)
(* State of a script run: m = [pc, ss, fr, obs].                           *)
(***************************************************************************)
NoFrame ==
    [symbols |-> <<>>, chunk_size |-> 0, chunks |-> <<>>, ci |-> 0,
     all_results |-> <<>>, stage |-> "", tries |-> 0, gc_now |-> 0,
     crumb |-> NoCrumb, sess |-> 0]

NoCall == [chunk |-> 0, reqs |-> <<>>, gc |-> <<>>, raised |-> "", ended |-> FALSE]

\* what the history keeps from one script run to the next
NoHistory == [sessions |-> 0, lost |-> 0, stale |-> FALSE]

ObsInit(h) ==
    [sessions |-> h.sessions, \* requests.Session objects constructed so far
     lost |-> h.lost,         \* of these, dropped because their bootstrap raised
     stale |-> h.stale,       \* a landing-page request was sent while yf_crumb
                              \*   held a crumb, and none was stored since
     boot |-> None,           \* status of this run's creation-time bootstrap
     call |-> "none",         \* none / stopped / hit / miss
     result |-> "none",       \* none / running / df / error
     error |-> "",            \* exception class that reached do_fetch
     df |-> <<>>,             \* the table fetch_quotes_cached returned
     key |-> <<<<>>, 0>>,     \* the arguments of fetch_quotes_cached
     ttl |-> 0,               \* the configured TTL of that run
     age |-> 0,               \* age of the key's entry at the call (0 if none)
     had |-> FALSE,           \* whether the key had an entry at the call
     fetches |-> 0,           \* executions of the function body in this run
     chunk |-> 0,             \* chunk in work (index into chunk_list)
     failed |-> 0,            \* chunk whose quote_once raised (0 if none)
     reqs |-> <<>>,           \* requests of the current quote_once call
     gc |-> <<>>,             \* get_crumb calls of the current quote_once call
     q |-> NoCall]            \* the quote_once call that ended last

Cur == [pc |-> pc, ss |-> session_state, fr |-> fr, obs |-> obs]

\* sess.get(url, ...) is sent and the run waits for the answer at `at`
Send(m, url, crumb, at) ==
    [m EXCEPT !.pc = at,
              !.obs.stale = IF url = "bootstrap" THEN m.ss.yf_crumb # NoCrumb ELSE @,
              !.obs.reqs = Append(@, [url |-> url, crumb |-> crumb, symbols |-> <<>>,
                                      status |-> None, failed |-> FALSE])]

\* the answer arrives; the landing page's status is never looked at
Answered(m, status) ==
    LET url == m.obs.reqs[Len(m.obs.reqs)].url
    IN  IF url = "bootstrap" THEN m
        ELSE IF url = "getcrumb"
        THEN [m EXCEPT !.obs.reqs[Len(m.obs.reqs)].status = Some(status),
                       !.obs.gc[Len(m.obs.gc)].st = Append(@, status)]
        ELSE [m EXCEPT !.obs.reqs[Len(m.obs.reqs)].status = Some(status)]

InQuoteOnce(at) == at \in {"getcrumb", "rebootstrap", "quote", "refresh"}

\* quote_once returns or raises: its requests are kept for inspection
EndQuoteOnce(m, raised) ==
    [m EXCEPT !.obs.q = [chunk |-> m.obs.chunk, reqs |-> m.obs.reqs,
                         gc |-> m.obs.gc, raised |-> raised, ended |-> TRUE]]

\* variant: the request goes out without a crumb
QuoteParamsOptimistic(crumb) == NoCrumb

\* quote_once line 113 (and 121): params = {"symbols": ..., "crumb": crumb}
QuoteParams(crumb) == crumb

\* quote_once line 114 (and 122): the quote request
QuoteSend(m, crumb) ==
    LET m1 == Send([m EXCEPT !.fr.crumb = QuoteParams(crumb)], "quote",
                   QuoteParams(crumb), "quote")
    IN  [m1 EXCEPT !.obs.reqs[Len(m1.obs.reqs)].symbols = m.fr.chunks[m.fr.ci]]

\* get_crumb lines 84-93
GetCrumbEnter(m, t) ==
    LET c == m.ss.yf_crumb
        ts == m.ss.yf_crumb_ts
        valid == CrumbValid(c, ts, t)
        rec == [t |-> t, had |-> c, had_ts |-> ts, cached |-> valid,
                stale |-> m.obs.stale,
                ret |-> IF valid THEN c ELSE NoCrumb, err |-> "",
                st |-> <<>>, boots |-> 0]
        m1 == [m EXCEPT !.obs.gc = Append(@, rec), !.fr.gc_now = t,
                        !.fr.tries = 0]
    IN  IF valid THEN QuoteSend(m1, c)
        ELSE Send(m1, "getcrumb", NoCrumb, "getcrumb")

\* quote_once line 112
QuoteOnceEnter(m, ci, t) ==
    GetCrumbEnter([m EXCEPT !.fr.ci = ci, !.fr.stage = "first",
                            !.obs.chunk = ci, !.obs.reqs = <<>>,
                            !.obs.gc = <<>>], t)

\* fetch_quotes_cached lines 182-186: the loop over the chunks
ChunkLoop(m, ci, t) ==
    IF ci <= Len(m.fr.chunks) THEN QuoteOnceEnter(m, ci, t)
    ELSE [m EXCEPT !.pc = "return"]

\* variant: a failed chunk is skipped and the loop goes on
RaiseSkipsChunk(m, kind) ==
    LET m1 == [m EXCEPT !.obs.error = kind, !.obs.failed = m.obs.chunk]
    IN  IF InQuoteOnce(m.pc)
        THEN ChunkLoop(EndQuoteOnce(m1, kind), m.fr.ci + 1, m.fr.gc_now)
        ELSE [m1 EXCEPT !.pc = "raise"]

\* variant: a failure returns the table of what was collected so far
RaiseStoresPartial(m, kind) ==
    LET m1 == [m EXCEPT !.obs.error = kind, !.obs.failed = m.obs.chunk]
        m2 == IF InQuoteOnce(m.pc) THEN EndQuoteOnce(m1, kind) ELSE m1
    IN  [m2 EXCEPT !.pc = "return"]

\* an exception leaves fetch_quotes_cached
Raise(m, kind) ==
    LET m1 == [m EXCEPT !.obs.error = kind, !.obs.failed = m.obs.chunk,
                        !.obs.lost = IF m.pc = "bootstrap" THEN @ + 1 ELSE @,
                        !.obs.gc = IF m.pc \in {"getcrumb", "rebootstrap"}
                                   THEN [@ EXCEPT ![Len(@)].err = kind] ELSE @]
        m2 == IF InQuoteOnce(m.pc) THEN EndQuoteOnce(m1, kind) ELSE m1
    IN  [m2 EXCEPT !.pc = "raise"]

\* variant: the exhaustion is reported as an HTTP error
CrumbExhaustedHTTP(m) == Raise(m, "HTTPError")

\* get_crumb line 104: both tries gave an empty body
CrumbExhausted(m) == Raise(m, "RuntimeError")

\* variant: every call constructs and bootstraps a session
FetchBodyFresh(m, symbols, chunk_size, t) ==
    LET m1 == [m EXCEPT !.fr = [NoFrame EXCEPT !.symbols = symbols,
                                               !.chunk_size = chunk_size,
                                               !.chunks = chunk_list(symbols, chunk_size)],
                        !.obs.fetches = @ + 1,
                        !.obs.result = "running"]
    IN  Send([m1 EXCEPT !.obs.sessions = @ + 1, !.fr.sess = m.obs.sessions + 1],
             "bootstrap", NoCrumb, "bootstrap")

\* fetch_quotes_cached lines 179-180 and get_yahoo_session lines 61-72, 77
FetchBody(m, symbols, chunk_size, t) ==
    LET m1 == [m EXCEPT !.fr = [NoFrame EXCEPT !.symbols = symbols,
                                               !.chunk_size = chunk_size,
                                               !.chunks = chunk_list(symbols, chunk_size)],
                        !.obs.fetches = @ + 1,
                        !.obs.result = "running"]
    IN  IF m1.ss.yf_sess = 0
        THEN Send([m1 EXCEPT !.obs.sessions = @ + 1,
                             !.fr.sess = m.obs.sessions + 1],
                  "bootstrap", NoCrumb, "bootstrap")
        ELSE ChunkLoop([m1 EXCEPT !.fr.sess = m1.ss.yf_sess], 1, t)

\* the end of a step: store and return, or propagate, or wait for an answer
Finish(m) ==
    /\ session_state' = m.ss
    /\ IF m.pc = "return"
       THEN LET df == build_df_from_results(m.fr.all_results, m.fr.symbols)
            IN  /\ cache' = [cache EXCEPT ![m.obs.key] =
                                [has |-> TRUE, ts |-> now, df |-> df]]
                /\ stored' = [stored EXCEPT ![m.obs.key] = "kept"]
                /\ obs' = [m.obs EXCEPT !.result = "df", !.df = df]
                /\ pc' = "idle"
                /\ fr' = NoFrame
       ELSE IF m.pc = "raise"
       THEN /\ cache' = cache
            /\ stored' = stored
            /\ obs' = [m.obs EXCEPT !.result = "error"]
            /\ pc' = "idle"
            /\ fr' = NoFrame
       ELSE /\ cache' = cache
            /\ stored' = stored
            /\ obs' = m.obs
            /\ pc' = m.pc
            /\ fr' = m.fr

(***************************************************************************)
(* The script's top: sidebar buttons (lines 204-210) and the TTL check     *)
(* (lines 218-222).  Each user interaction reruns the script once.         *)
(***************************************************************************)
PopSession(ss) ==
    [ss EXCEPT !.yf_sess = 0, !.yf_crumb = NoCrumb, !.yf_crumb_ts = 0]

TopState(ss, clear_btn, reset_btn) ==
    IF reset_btn THEN PopSession(ss) ELSE ss

\* variant: a changed TTL goes unnoticed
TtlChangedNever(ss, ttl_value) == FALSE

\* lines 218-222: the TTL differs from the one the last run saw
TtlChanged(ss, ttl_value) == ss.last_ttl # ttl_value

TopCache(c, ss, ttl_value, clear_btn) ==
    IF clear_btn \/ TtlChanged(ss, ttl_value) THEN EmptyCache ELSE c

Idle == pc = "idle"

\* the user changes the TTL number_input
ChangeTtl(v) ==
    /\ Idle
    /\ v # ttl
    /\ ttl' = v
    /\ cache' = TopCache(cache, session_state, v, FALSE)
    /\ stored' = [k \in Keys |-> IF stored[k] = "kept" THEN "ttl_changed"
                                 ELSE stored[k]]
    /\ session_state' = [TopState(session_state, FALSE, FALSE) EXCEPT !.last_ttl = v]
    /\ obs' = ObsInit(obs)
    /\ UNCHANGED <<now, ticks, runs, pc, fr, pureVars>>

\* the "discard cache" button
ClearCacheButton ==
    /\ Idle
    /\ cache' = TopCache(cache, session_state, ttl, TRUE)
    /\ stored' = NothingStored
    /\ session_state' = [TopState(session_state, TRUE, FALSE) EXCEPT !.last_ttl = ttl]
    /\ obs' = ObsInit(obs)
    /\ UNCHANGED <<now, ticks, runs, ttl, pc, fr, pureVars>>

\* the "re-acquire cookie/crumb" button
ResetSessionButton ==
    /\ Idle
    /\ cache' = TopCache(cache, session_state, ttl, FALSE)
    /\ stored' = stored
    /\ session_state' = [TopState(session_state, FALSE, TRUE) EXCEPT !.last_ttl = ttl]
    /\ obs' = ObsInit(obs)
    /\ UNCHANGED <<now, ticks, runs, ttl, pc, fr, pureVars>>

\* variant: fetch_quotes_cached is called whatever the list, empty or not
FetchButtonNoStop(symbols, chunk_size) ==
    /\ Idle
    /\ runs' = runs + 1
    /\ UNCHANGED <<now, ticks, ttl, pureVars>>
    /\ LET ss == [TopState(session_state, FALSE, FALSE) EXCEPT !.last_ttl = ttl]
           o == [ObsInit(obs) EXCEPT !.key = <<symbols, chunk_size>>, !.ttl = ttl,
                                     !.call = "miss"]
       IN  Finish(FetchBody([pc |-> pc, ss |-> ss, fr |-> fr, obs |-> o],
                            symbols, chunk_size, now))

\* the "fetch" button: lines 237-246 and 258-260, with st.cache_data's lookup
FetchButton(symbols, chunk_size) ==
    /\ Idle
    /\ runs' = runs + 1
    /\ UNCHANGED <<now, ticks, ttl, pureVars>>
    /\ LET ss == [TopState(session_state, FALSE, FALSE) EXCEPT !.last_ttl = ttl]
           c == TopCache(cache, session_state, ttl, FALSE)
           key == <<symbols, chunk_size>>
           o == [ObsInit(obs) EXCEPT !.key = key, !.ttl = ttl]
       IN  IF symbols = <<>>
           THEN \* st.stop() at line 246
                /\ obs' = [o EXCEPT !.call = "stopped"]
                /\ session_state' = ss
                /\ cache' = c
                /\ UNCHANGED <<stored, pc, fr>>
           ELSE LET e == c[key]
                    o1 == [o EXCEPT !.had = e.has,
                                    !.age = IF e.has THEN now - e.ts ELSE 0]
                IN  IF CacheHit(e, now)
                    THEN /\ obs' = [o1 EXCEPT !.call = "hit", !.result = "df",
                                              !.df = e.df]
                         /\ session_state' = ss
                         /\ cache' = c
                         /\ UNCHANGED <<stored, pc, fr>>
                    ELSE Finish(FetchBody([pc |-> pc, ss |-> ss, fr |-> fr,
                                           obs |-> [o1 EXCEPT !.call = "miss"]],
                                          symbols, chunk_size, now))

(***************************************************************************)
(* Answers of the upstream.                                                *)
(***************************************************************************)
Waiting == {"bootstrap", "getcrumb", "rebootstrap", "quote", "refresh"}

\* any sess.get may raise (connection error, timeout): not an HTTPError
RequestFails ==
    /\ pc \in Waiting
    /\ Finish(Raise([Cur EXCEPT !.obs.reqs[Len(obs.reqs)].failed = TRUE],
                    "ConnectionError"))
    /\ UNCHANGED <<now, ticks, ttl, runs, pureVars>>

\* variant: the landing page's status is checked before the session is stored
BootstrapResponseChecked(status) ==
    /\ pc = "bootstrap"
    /\ LET m == [Answered(Cur, status) EXCEPT !.obs.boot = Some(status)]
           m1 == [m EXCEPT !.ss.yf_sess = m.fr.sess, !.ss.yf_crumb = NoCrumb,
                           !.ss.yf_crumb_ts = 0]
       IN  IF RaiseForStatus(status) # "" THEN Finish(Raise(m, RaiseForStatus(status)))
           ELSE Finish(ChunkLoop(m1, 1, now))
    /\ UNCHANGED <<now, ticks, ttl, runs, pureVars>>

\* get_yahoo_session lines 72-77: the status of the landing page is not looked at
BootstrapResponse(status) ==
    /\ pc = "bootstrap"
    /\ LET m == Answered(Cur, status)
           m1 == [m EXCEPT !.ss.yf_sess = m.fr.sess, !.ss.yf_crumb = NoCrumb,
                           !.ss.yf_crumb_ts = 0, !.obs.boot = Some(status)]
       IN  Finish(ChunkLoop(m1, 1, now))
    /\ UNCHANGED <<now, ticks, ttl, runs, pureVars>>

\* get_crumb lines 93-102
CrumbResponse(status, body) ==
    /\ pc = "getcrumb"
    /\ LET m == Answered(Cur, status)
           crumb == Strip(body)
       IN  IF RaiseForStatus(status) # ""
           THEN Finish(Raise(m, RaiseForStatus(status)))
           ELSE IF crumb # NoCrumb
           THEN Finish(QuoteSend(
                    [m EXCEPT !.ss.yf_crumb = crumb,
                              !.ss.yf_crumb_ts = m.fr.gc_now,
                              !.obs.stale = FALSE,
                              !.obs.gc[Len(m.obs.gc)].ret = crumb], crumb))
           ELSE Finish(Send(m, "bootstrap", NoCrumb, "rebootstrap"))
    /\ UNCHANGED <<now, ticks, ttl, runs, pureVars>>

\* get_crumb lines 102-104: after the re-bootstrap, the next try or the end
RebootstrapResponse(status) ==
    /\ pc = "rebootstrap"
    /\ LET m == [Answered(Cur, status) EXCEPT !.fr.tries = @ + 1,
                                              !.obs.gc[Len(obs.gc)].boots = @ + 1]
       IN  IF m.fr.tries < CrumbTries
           THEN Finish(Send(m, "getcrumb", NoCrumb, "getcrumb"))
           ELSE Finish(CrumbExhausted(m))
    /\ UNCHANGED <<now, ticks, ttl, runs, pureVars>>

\* bodies of a 200 answer for a chunk: a record for every symbol, for all but
\* the last one, or a body that is no JSON
QuoteBodies(chunk) ==
    IF chunk = <<>> THEN {} ELSE
    { [json |-> TRUE, result |-> [i \in 1..Len(chunk) |-> FullQuote(chunk[i])]],
      [json |-> TRUE, result |-> [i \in 1..(Len(chunk) - 1) |-> FullQuote(chunk[i])]],
      [json |-> FALSE, result |-> <<>>] }

CurChunk == IF fr.ci \in 1..Len(fr.chunks) THEN fr.chunks[fr.ci] ELSE <<>>

\* quote_once lines 116-126 and the loop of fetch_quotes_cached
QuoteResponse(status, body) ==
    /\ pc = "quote"
    /\ LET m == Answered(Cur, status)
       IN  IF NeedsRetry(fr.stage, status)
           THEN Finish(Send([m EXCEPT !.ss = DropCrumb(m.ss), !.fr.stage = "retry"],
                            "bootstrap", NoCrumb, "refresh"))
           ELSE IF RaiseForStatus(status) # ""
           THEN Finish(Raise(m, RaiseForStatus(status)))
           ELSE IF ~body.json THEN Finish(Raise(m, "JSONDecodeError"))
           ELSE Finish(ChunkLoop(
                    EndQuoteOnce([m EXCEPT !.fr.all_results = @ \o body.result], ""),
                    fr.ci + 1, now))
    /\ UNCHANGED <<now, ticks, ttl, runs, pureVars>>

\* quote_once lines 119-120
RefreshResponse(status) ==
    /\ pc = "refresh"
    /\ Finish(GetCrumbEnter(Answered(Cur, status), now))
    /\ UNCHANGED <<now, ticks, ttl, runs, pureVars>>

\* time passes between two script runs
Tick(d) ==
    /\ pc = "idle"
    /\ ticks < MaxTicks
    /\ now' = now + d
    /\ ticks' = ticks + 1
    /\ UNCHANGED <<ttl, cache, stored, session_state, pc, fr, obs, runs, pureVars>>

(***************************************************************************)
(* The application.                                                        *)
(***************************************************************************)
RcIdle ==
    /\ rc_pc = "off" /\ rc_results = <<>> /\ rc_requested = <<>> /\ rc_df = <<>>

NzIdle ==
    /\ nz_pc = "off" /\ nz_text = <<>> /\ nz_symbols = <<>>

Init ==
    /\ now = 0
    /\ ttl = DefaultTtl
    /\ cache = EmptyCache
    /\ stored = NothingStored
    /\ session_state = [yf_sess |-> 0, yf_crumb |-> NoCrumb, yf_crumb_ts |-> 0,
                        last_ttl |-> DefaultTtl]
    /\ pc = "idle"
    /\ fr = NoFrame
    /\ obs = ObsInit(NoHistory)
    /\ runs = 0
    /\ ticks = 0
    /\ RcIdle
    /\ NzIdle

\* what the user does about the cache: at most MaxRuns presses of the fetch
\* button, the TTL widget, the discard button, a short wait
CacheUser ==
    \/ \E d \in ShortTicks : Tick(d)
    \/ \E v \in TtlValues : ChangeTtl(v)
    \/ ClearCacheButton
    \/ /\ runs < MaxRuns
       /\ \E symbols \in SymbolSets, chunk_size \in ChunkSizes :
              FetchButton(symbols, chunk_size)

\* what the user does about the session: at most MaxRuns presses of the fetch
\* button, the reset button, a long wait
SessionUser ==
    \/ \E d \in LongTicks : Tick(d)
    \/ ResetSessionButton
    \/ /\ runs < MaxRuns
       /\ \E symbols \in SymbolSets, chunk_size \in ChunkSizes :
              FetchButton(symbols, chunk_size)

\* what the upstream answers, from the given statuses and bodies
Upstream(crumb_st, crumb_bd, quote_st, boot_st) ==
    \/ RequestFails
    \/ \E status \in boot_st : BootstrapResponse(status)
    \/ \E status \in crumb_st, body \in crumb_bd : CrumbResponse(status, body)
    \/ \E status \in boot_st : RebootstrapResponse(status)
    \/ \E status \in quote_st :
           \E body \in QuoteBodies(CurChunk) : QuoteResponse(status, body)
    \/ \E status \in boot_st : RefreshResponse(status)

\* the cache over several runs, the upstream answering with few statuses
Next ==
    \/ CacheUser
    \/ Upstream({200, 429}, {<<>>, <<"A">>}, {200, 403, 500}, {200})

Spec == Init /\ [][Next]_vars

\* the session and its crumb over several runs
NextSession ==
    \/ SessionUser
    \/ Upstream({200, 429}, {<<>>, <<"A">>}, {200, 403, 500}, BootStatuses)

SpecSession == Init /\ [][NextSession]_vars

\* one run of the fetch, every answer of the upstream explored
NextQuote ==
    \/ /\ runs < MaxQuoteRuns
       /\ \E symbols \in SymbolSets, chunk_size \in ChunkSizes :
              FetchButton(symbols, chunk_size)
    \/ Upstream(CrumbStatuses, CrumbBodies, QuoteStatuses, BootStatuses)

SpecQuote == Init /\ [][NextQuote]_vars

\* every sess.get has timeout=15: a request that is waited for is answered or
\* raises
SpecQuoteFair ==
    SpecQuote /\ WF_vars(Upstream(CrumbStatuses, CrumbBodies, QuoteStatuses, BootStatuses))

\* one run of the fetch over lists and chunk sizes that exercise the chunking
NextChunks ==
    \/ /\ runs < MaxQuoteRuns
       /\ \E symbols \in ChunkSymbolSets, chunk_size \in ChunkSizesAll :
              FetchButton(symbols, chunk_size)
    \/ Upstream({200}, {<<>>, <<"A">>}, {200, 403}, {200})

SpecChunks == Init /\ [][NextChunks]_vars

(***************************************************************************)
(* build_df_from_results on its own: every list of at most MaxResults      *)
(* provider records against every requested list.                          *)
(***************************************************************************)
RecordPool ==
    {FullQuote(sym) : sym \in ProviderSymbols} \cup {SparseQuote(sym) : sym \in Symbols}

ResultLists == UNION {[1..n -> RecordPool] : n \in 0..MaxResults}

\* sorted(set(...)): the elements of a set of strings in ascending order
RECURSIVE SortedSeq(_)
SortedSeq(S) ==
    IF S = {} THEN <<>>
    ELSE LET least == CHOOSE x \in S : \A y \in S : StrLeq(x, y)
         IN  <<least>> \o SortedSeq(S \ {least})

RequestedLists == {SortedSeq(S) : S \in SUBSET Symbols}

InitReconcile ==
    /\ now = 0
    /\ ttl = DefaultTtl
    /\ cache = EmptyCache
    /\ stored = NothingStored
    /\ session_state = [yf_sess |-> 0, yf_crumb |-> NoCrumb, yf_crumb_ts |-> 0,
                        last_ttl |-> DefaultTtl]
    /\ pc = "idle"
    /\ fr = NoFrame
    /\ obs = ObsInit(NoHistory)
    /\ runs = 0
    /\ ticks = 0
    /\ rc_pc = "call"
    /\ rc_results \in ResultLists
    /\ rc_requested \in RequestedLists
    /\ rc_df = <<>>
    /\ NzIdle

Reconcile ==
    /\ rc_pc = "call"
    /\ rc_df' = build_df_from_results(rc_results, rc_requested)
    /\ rc_pc' = "done"
    /\ UNCHANGED <<rc_results, rc_requested, mainVars, nzVars>>

NextReconcile == Reconcile

SpecReconcile == InitReconcile /\ [][NextReconcile]_vars

(***************************************************************************)
(* load_symbols_from_text on its own: every text of at most MaxTextLen      *)
(* characters over a line break, a blank, the comment mark, a decimal      *)
(* digit, a digit that is not decimal, and a letter.                       *)
(***************************************************************************)
DecimalDigits == {"0", "1", "2", "3", "4", "5", "6", "7", "8", "9"}
\* the characters str.isdigit accepts: the decimal digits and, among others,
\* the superscript digits
DigitChars == DecimalDigits \cup {"sup2"}

TextChars == {"\n", " ", "#", "7", "sup2", "A"}
Texts == UNION {[1..n -> TextChars] : n \in 0..MaxTextLen}

\* str.splitlines(): the pieces between line breaks, no piece after a final one
RECURSIVE splitlines(_)
splitlines(text) ==
    IF text = <<>> THEN <<>>
    ELSE LET brk == {i \in 1..Len(text) : text[i] = "\n"}
         IN  IF brk = {} THEN <<text>>
             ELSE LET i == CHOOSE j \in brk : \A k \in brk : j <= k
                  IN  <<SubSeq(text, 1, i - 1)>>
                      \o splitlines(SubSeq(text, i + 1, Len(text)))

\* variant: only the decimal digits count
isdigitDecimal(s) == s # <<>> /\ \A i \in 1..Len(s) : s[i] \in DecimalDigits

\* str.isdigit(): non-empty and every character a digit
isdigit(s) == s # <<>> /\ \A i \in 1..Len(s) : s[i] \in DigitChars

\* lines 23-30
normalize_symbol(line) ==
    LET s == Strip(line)
    IN  IF s = <<>> \/ Head(s) = "#" THEN None
        ELSE IF isdigit(s) /\ Len(s) = 4 THEN Some(s \o <<".", "T">>)
        ELSE Some(s)

\* lines 33-40
load_symbols_from_text(text) ==
    LET lines == splitlines(text)
        syms == {normalize_symbol(lines[i])[1] :
                     i \in {j \in 1..Len(lines) : normalize_symbol(lines[j]) # None}}
    IN  SortedSeq(syms)

InitNormalize ==
    /\ now = 0
    /\ ttl = DefaultTtl
    /\ cache = EmptyCache
    /\ stored = NothingStored
    /\ session_state = [yf_sess |-> 0, yf_crumb |-> NoCrumb, yf_crumb_ts |-> 0,
                        last_ttl |-> DefaultTtl]
    /\ pc = "idle"
    /\ fr = NoFrame
    /\ obs = ObsInit(NoHistory)
    /\ runs = 0
    /\ ticks = 0
    /\ RcIdle
    /\ nz_pc = "call"
    /\ nz_text \in Texts
    /\ nz_symbols = <<>>

Normalize ==
    /\ nz_pc = "call"
    /\ nz_symbols' = load_symbols_from_text(nz_text)
    /\ nz_pc' = "done"
    /\ UNCHANGED <<nz_text, mainVars, rcVars>>

NextNormalize == Normalize

SpecNormalize == InitNormalize /\ [][NextNormalize]_vars

(***************************************************************************)
(* Properties of a table.                                                  *)
(***************************************************************************)
SortedBySymbol(df) ==
    \A i \in 1..(Len(df) - 1) : StrLeq(df[i].symbol, df[i + 1].symbol)

NoDuplicateSymbols(df) ==
    \A i, j \in 1..Len(df) : i # j => df[i].symbol # df[j].symbol

\* C1: for every requested list and every list of provider records, the table
\* has exactly one row per requested symbol, is sorted ascending by symbol and
\* holds no symbol twice.
C1_ExactRows ==
    rc_pc = "done" =>
        /\ Len(rc_df) = Len(rc_requested)
        /\ SortedBySymbol(rc_df)
        /\ NoDuplicateSymbols(rc_df)

(***************************************************************************)
(* Reading the history of a quote_once call.                               *)
(***************************************************************************)
QuoteReqs(reqs) == SelectSeq(reqs, LAMBDA r : r.url = "quote")
CrumbReqs(reqs) == SelectSeq(reqs, LAMBDA r : r.url = "getcrumb")
BootReqs(reqs) == SelectSeq(reqs, LAMBDA r : r.url = "bootstrap")

\* the requests sent after the first quote request
AfterFirstQuote(reqs) ==
    LET first == CHOOSE i \in 1..Len(reqs) :
                     /\ reqs[i].url = "quote"
                     /\ \A j \in 1..(i - 1) : reqs[j].url # "quote"
    IN  SubSeq(reqs, first + 1, Len(reqs))

\* the get_crumb calls of the running and of the last ended quote_once call
GcCalls ==
    {obs.gc[i] : i \in 1..Len(obs.gc)} \cup {obs.q.gc[i] : i \in 1..Len(obs.q.gc)}

\* no request of the call failed, every crumb request gave a token at once
CrumbEndpointFine(q) ==
    /\ \A i \in 1..Len(q.reqs) : ~q.reqs[i].failed
    /\ \A i \in 1..Len(q.gc) :
           q.gc[i].cached \/ (q.gc[i].st = <<200>> /\ q.gc[i].ret # NoCrumb)

\* the call ended, its first quote answer was 403 and a second one, if any, 200
Denied403Then200(q) ==
    /\ q.ended
    /\ CrumbEndpointFine(q)
    /\ LET qs == QuoteReqs(q.reqs)
       IN  /\ Len(qs) >= 1
           /\ qs[1].status = Some(403)
           /\ Len(qs) >= 2 => qs[2].status = Some(200)

\* C2 (as claimed): for every configured TTL, a get for a key that has an entry
\* is served from the cache with no fetch while the entry's age is below the
\* configured TTL, and runs exactly one fetch once that TTL has elapsed.
C2_ConfiguredTtl ==
    (obs.call \in {"hit", "miss"} /\ obs.had) =>
        /\ obs.age < obs.ttl => (obs.call = "hit" /\ obs.fetches = 0)
        /\ obs.age >= obs.ttl => (obs.call = "miss" /\ obs.fetches = 1)

\* C3 (as claimed): quote answers 403 then 200: exactly 2 quote requests,
\* exactly 1 crumb request, and the second quote request carries the crumb.
C3_OneCrumbRequest ==
    Denied403Then200(obs.q) =>
        /\ Len(QuoteReqs(obs.q.reqs)) = 2
        /\ Len(CrumbReqs(obs.q.reqs)) = 1
        /\ QuoteReqs(obs.q.reqs)[2].crumb # NoCrumb

\* C3 (amended): quote answers 403 then 200 and the crumb endpoint gives a token
\* at every request: exactly 2 quote requests, both with a crumb; exactly 1 crumb
\* request after the 403, whose token the second quote request carries; and 1
\* more crumb request before the first quote request unless an unexpired crumb
\* was cached at the start of the call.
C3_CrumbRequestAfterDenial ==
    Denied403Then200(obs.q) =>
        LET qs == QuoteReqs(obs.q.reqs)
        IN  /\ Len(qs) = 2
            /\ qs[1].crumb # NoCrumb
            /\ qs[2].crumb # NoCrumb
            /\ Len(obs.q.gc) = 2
            /\ ~obs.q.gc[2].cached
            /\ qs[2].crumb = obs.q.gc[2].ret
            /\ Len(CrumbReqs(AfterFirstQuote(obs.q.reqs))) = 1
            /\ Len(CrumbReqs(obs.q.reqs)) = IF obs.q.gc[1].cached THEN 1 ELSE 2

C3_Witness ==
    /\ Denied403Then200(obs.q)
    /\ obs.q.gc[1].cached
    /\ Len(QuoteReqs(obs.q.reqs)) = 2

\* C4 (as claimed): a 429 of the token endpoint is not immediately fatal: a
\* get_crumb call that ends in an error after a 429 has made 3 attempts.
C4_RetryOn429 ==
    \A g \in GcCalls :
        (g.err # "" /\ g.st # <<>> /\ g.st[Len(g.st)] = 429) => Len(g.st) >= 3

\* C4 (amended): get_crumb makes at most 2 token requests; a 429 (any 4xx/5xx)
\* is immediately fatal: it is the call's last request and the call raises
\* HTTPError without a token; only an empty body uses up a try: a token is
\* returned after 200s only, on the first attempt or, after one empty body and
\* one re-bootstrap, on the second.
C4_EmptyBodyRetried ==
    \A g \in GcCalls :
        /\ Len(g.st) <= CrumbTries
        /\ \A i \in 1..Len(g.st) :
               IsHTTPError(g.st[i]) =>
                   /\ i = Len(g.st)
                   /\ g.err = "HTTPError"
                   /\ g.ret = NoCrumb
        /\ (g.ret # NoCrumb /\ ~g.cached) =>
               /\ Len(g.st) \in 1..CrumbTries
               /\ \A i \in 1..Len(g.st) : g.st[i] = 200
               /\ g.boots = Len(g.st) - 1
               /\ g.err = ""

C4_Witness ==
    \E g \in GcCalls : g.st = <<200, 200>> /\ g.ret # NoCrumb /\ g.boots = 1

\* C5 (as claimed): the first quote request of a chunk carries no crumb, and a
\* successful first answer means no crumb request for the chunk.
C5_OptimisticFirst ==
    /\ LET qs == QuoteReqs(obs.reqs)
       IN  Len(qs) >= 1 => qs[1].crumb = NoCrumb
    /\ LET qs == QuoteReqs(obs.q.reqs)
       IN  (obs.q.ended /\ Len(qs) >= 1 /\ qs[1].status = Some(200)) =>
               Len(CrumbReqs(obs.q.reqs)) = 0

\* C5 (amended): the first quote request of a chunk carries the crumb get_crumb
\* returned; when an unexpired crumb was cached at the start of the call and the
\* first answer is a success, no crumb or landing-page request is made for the
\* chunk.
C5_CrumbFirst ==
    /\ LET qs == QuoteReqs(obs.reqs)
       IN  Len(qs) >= 1 =>
               /\ qs[1].crumb # NoCrumb
               /\ qs[1].crumb = obs.gc[1].ret
    /\ LET qs == QuoteReqs(obs.q.reqs)
       IN  (obs.q.ended /\ Len(qs) >= 1 /\ qs[1].status = Some(200)
              /\ obs.q.gc[1].cached) =>
               /\ Len(CrumbReqs(obs.q.reqs)) = 0
               /\ Len(BootReqs(obs.q.reqs)) = 0
               /\ Len(obs.q.reqs) = 1

C5_Witness ==
    /\ obs.q.ended
    /\ obs.q.gc # <<>>
    /\ obs.q.gc[1].cached
    /\ QuoteReqs(obs.q.reqs) # <<>>
    /\ QuoteReqs(obs.q.reqs)[1].status = Some(200)

\* C6: a second quote request is sent only after a 401 or 403 to the first, a
\* third never: once the second one is answered, whatever the status, the call
\* has ended with a result or an error.
C6_AtMostOneRetry ==
    LET qs == QuoteReqs(obs.reqs)
    IN  /\ Len(qs) <= 2
        /\ Len(qs) = 2 => qs[1].status \in {Some(401), Some(403)}
        /\ (Len(qs) = 2 /\ qs[2].status # None) =>
               /\ pc = "idle"
               /\ obs.q.ended
               /\ obs.q.reqs = obs.reqs
               /\ obs.result \in {"df", "error"}
        /\ Len(QuoteReqs(obs.q.reqs)) <= 2

C6_Witness ==
    /\ obs.q.ended
    /\ Len(QuoteReqs(obs.q.reqs)) = 2
    /\ QuoteReqs(obs.q.reqs)[2].status = Some(403)
    /\ obs.q.raised = "HTTPError"

\* a quote_once call whose last quote answer was 429
Quote429(q) ==
    /\ q.ended
    /\ QuoteReqs(q.reqs) # <<>>
    /\ QuoteReqs(q.reqs)[Len(QuoteReqs(q.reqs))].status = Some(429)

\* C7 (as claimed): a 429 to a quote request ends the chunk at once, with an
\* error that differs from the one raised for any other non-success status.
C7_RateLimitedDistinct ==
    Quote429(obs.q) =>
        /\ obs.q.reqs[Len(obs.q.reqs)].url = "quote"
        /\ obs.q.raised # ""
        /\ \A status \in QuoteStatuses \ {429} : obs.q.raised # RaiseForStatus(status)

\* C7 (amended): a 429 to a quote request, the first or the retry, ends the chunk
\* at once: it is the call's last request, and the call raises HTTPError, the
\* error raised for every other 4xx/5xx status as well.
C7_RateLimitedFatal ==
    /\ \A i \in 1..Len(obs.reqs) :
           (obs.reqs[i].url = "quote" /\ obs.reqs[i].status = Some(429)) =>
               /\ i = Len(obs.reqs)
               /\ pc = "idle"
               /\ obs.q.reqs = obs.reqs
    /\ Quote429(obs.q) =>
           /\ obs.q.reqs[Len(obs.q.reqs)].url = "quote"
           /\ obs.q.raised = "HTTPError"
           /\ obs.q.raised = RaiseForStatus(500)
           /\ obs.result = "error"
           /\ obs.error = "HTTPError"

C7_Witness ==
    /\ Quote429(obs.q)
    /\ Len(QuoteReqs(obs.q.reqs)) = 2

\* C8: once a chunk has failed the call is over: no table is returned, nothing
\* is stored for the key, and no later chunk is requested.
C8_ChunkFailureAborts ==
    /\ obs.failed # 0 =>
           /\ pc = "idle"
           /\ obs.result = "error"
           /\ obs.df = <<>>
           /\ obs.chunk = obs.failed
           /\ obs.q.chunk = obs.failed
           /\ obs.q.raised # ""
           /\ ~cache[obs.key].has
    /\ obs.result = "df" => obs.failed = 0

C8_Witness ==
    /\ obs.failed = 1
    /\ Len(chunk_list(obs.key[1], obs.key[2])) = 2
    /\ obs.result = "error"

\* C9: get_crumb returns a cached crumb younger than max-age without any
\* request; a cached crumb whose age has reached max-age is not returned from
\* the cache: the call asks the crumb endpoint, and the crumb it then returns is
\* stored with the time of that call.
C9_CrumbMaxAge ==
    /\ \A g \in GcCalls :
           /\ (g.had # NoCrumb /\ g.t - g.had_ts < MaxAgeSec) =>
                  /\ g.cached
                  /\ g.ret = g.had
                  /\ g.st = <<>>
                  /\ g.boots = 0
                  /\ g.err = ""
           /\ (g.had # NoCrumb /\ g.t - g.had_ts >= MaxAgeSec) =>
                  /\ ~g.cached
                  /\ g.ret # NoCrumb => (g.st # <<>> /\ g.st[Len(g.st)] = 200)
    /\ obs.gc # <<>> =>
           LET g == obs.gc[Len(obs.gc)]
           IN  (~g.cached /\ g.ret # NoCrumb) =>
                   /\ session_state.yf_crumb_ts = g.t
                   /\ session_state.yf_crumb \in {g.ret, NoCrumb}

C9_Witness ==
    \E g \in GcCalls :
        /\ g.had # NoCrumb
        /\ g.t - g.had_ts >= MaxAgeSec
        /\ ~g.cached
        /\ g.ret # NoCrumb
        /\ session_state.yf_crumb_ts = g.t
        /\ g.t > 0

\* get_crumb used up its tries: every try got an empty body and re-bootstrapped
Exhausted(g) == Len(g.st) = CrumbTries /\ g.boots = CrumbTries /\ g.ret = NoCrumb

\* C10: a get_crumb call that uses up all its tries without a token fails with
\* an error (RuntimeError in the code) that is not the error raised for any
\* HTTP status, and only such a call fails with it.
C10_ExhaustionError ==
    \A g \in GcCalls :
        /\ Exhausted(g) =>
               /\ g.err = "RuntimeError"
               /\ \A status \in QuoteStatuses \cup CrumbStatuses :
                      g.err # RaiseForStatus(status)
               /\ obs.result = "error"
               /\ obs.error = g.err
        /\ g.err = "RuntimeError" => Exhausted(g)

C10_Witness ==
    \E g \in GcCalls : Exhausted(g) /\ g.err = "RuntimeError" /\ g.st = <<200, 200>>

(***************************************************************************)
(* The cache across runs.                                                  *)
(***************************************************************************)
\* a step of a fetch_quotes_cached call: its start, an answer, its end
FetchStep == pc # "idle" \/ pc' # "idle"

\* C11: no step of a fetch that fails (a chunk, the crumb or the bootstrap
\* raised) changes any cache entry, and after the failure the key that was
\* fetched has no valid entry; entries of other keys stay as they were.
C11_FailedFetchKeepsCache ==
    /\ [](obs.result = "error" =>
             /\ obs.error # ""
             /\ obs.call = "miss"
             /\ ~CacheHit(cache[obs.key], now)
             /\ cache[obs.key].has = obs.had)
    /\ [][(FetchStep /\ obs'.error # "") => cache' = cache]_vars

C11_Witness ==
    /\ obs.result = "error"
    /\ obs.error \in {"HTTPError", "RuntimeError", "ConnectionError"}
    /\ \E k \in Keys : k # obs.key /\ CacheHit(cache[k], now)

\* C12: a change of the configured TTL discards every cache entry, whatever its
\* age: the step that changes the TTL leaves the store empty, an entry discarded
\* that way is not in the store until a fetch stores it again, and the first get
\* for its key afterwards is a miss that runs the fetch once.
C12_TtlChangeInvalidates ==
    /\ [](pc = "idle" => session_state.last_ttl = ttl)
    /\ [](\A k \in Keys : stored[k] = "ttl_changed" => ~cache[k].has)
    /\ []((obs.call \in {"hit", "miss"} /\ stored[obs.key] = "ttl_changed") =>
             (obs.call = "miss" /\ obs.fetches = 1 /\ ~obs.had))
    /\ [][ttl' # ttl => (cache' = EmptyCache /\ session_state'.last_ttl = ttl')]_vars

\* a get at time 0 (the entry's age is below every TTL) after a TTL change
C12_Witness ==
    /\ obs.call = "miss"
    /\ stored[obs.key] = "ttl_changed"
    /\ now = 0
    /\ obs.fetches = 1

(***************************************************************************)
(* The session.                                                            *)
(***************************************************************************)
\* the creation-time bootstrap request of this run raised
BootstrapRaised ==
    /\ obs.chunk = 0
    /\ Len(obs.reqs) = 1
    /\ obs.reqs[1].url = "bootstrap"
    /\ obs.reqs[1].failed

\* the creation-time bootstrap of this run was answered with a non-2xx status
BootstrapNon2xx == obs.boot # None /\ obs.boot[1] \notin 200..299

\* C13 (as claimed): when the creation-time bootstrap fails, by a network error
\* or by a non-2xx answer, get_yahoo_session fails and no session is stored.
C13_Non2xxFails ==
    (BootstrapRaised \/ BootstrapNon2xx) =>
        /\ session_state.yf_sess = 0
        /\ obs.result = "error"
        /\ obs.chunk = 0

\* C13 (amended): when the creation-time bootstrap request raises (network
\* error), the exception, which is no HTTPError, ends the fetch, no session is
\* stored and no chunk is requested; an acquisition that finds no stored session
\* constructs one and sends the bootstrap request (again); an answer of any
\* status, 2xx or not, stores the session and the fetch goes on to chunk 1.
C13_NetworkFailureOnly ==
    /\ [](BootstrapRaised =>
             /\ pc = "idle"
             /\ obs.result = "error"
             /\ obs.error = "ConnectionError"
             /\ obs.boot = None
             /\ session_state.yf_sess = 0
             /\ session_state.yf_crumb = NoCrumb
             /\ obs.lost >= 1
             /\ obs.q = NoCall)
    /\ [](obs.boot # None =>
             /\ session_state.yf_sess = obs.sessions
             /\ session_state.yf_sess # 0
             /\ obs.chunk >= 1)
    /\ [][(pc = "idle" /\ pc' # "idle" /\ session_state.yf_sess = 0) =>
             /\ pc' = "bootstrap"
             /\ obs'.sessions = obs.sessions + 1
             /\ fr'.sess = obs'.sessions
             /\ session_state'.yf_sess = 0]_vars

\* the bootstrap is sent again after an earlier one raised
C13_Witness ==
    /\ pc = "bootstrap"
    /\ obs.lost = 1
    /\ obs.sessions = 2
    /\ session_state.yf_sess = 0

\* C14: a fetch that finds a stored session uses that session: no session is
\* constructed and no creation-time bootstrap is sent, and every request of the
\* run goes through the stored session. The stored session changes in two ways
\* only: the reset button removes it, and the answer to a creation-time
\* bootstrap stores the one session constructed for it; a fetch that finds no
\* stored session constructs exactly one.
C14_SessionReuse ==
    /\ []((pc \notin {"idle", "bootstrap"}) =>
             (fr.sess # 0 /\ fr.sess = session_state.yf_sess))
    /\ [](session_state.yf_sess <= obs.sessions)
    /\ [][(pc = "idle" /\ pc' # "idle" /\ session_state.yf_sess # 0) =>
             /\ pc' # "bootstrap"
             /\ obs'.sessions = obs.sessions
             /\ obs'.boot = None
             /\ fr'.sess = session_state.yf_sess
             /\ session_state'.yf_sess = session_state.yf_sess]_vars
    /\ [][session_state'.yf_sess # session_state.yf_sess =>
             \/ /\ pc = "idle" /\ pc' = "idle"
                /\ session_state'.yf_sess = 0
             \/ /\ pc = "bootstrap"
                /\ session_state.yf_sess = 0
                /\ session_state'.yf_sess = obs.sessions
                /\ obs'.sessions = obs.sessions]_vars
    /\ [][obs'.sessions # obs.sessions =>
             /\ obs'.sessions = obs.sessions + 1
             /\ session_state.yf_sess = 0
             /\ pc = "idle" /\ pc' = "bootstrap"]_vars

\* a second fetch that runs with the session the first one stored
C14_Witness ==
    /\ runs = 2
    /\ obs.call = "miss"
    /\ obs.boot = None
    /\ pc \in {"getcrumb", "quote"}
    /\ obs.sessions = 1
    /\ fr.sess = 1
    /\ session_state.yf_sess = 1

(***************************************************************************)
(* The rows of a table.                                                    *)
(***************************************************************************)
RowsOf(df, sym) == {j \in 1..Len(df) : df[j].symbol = sym}

AllAbsent(row) ==
    /\ row.name = None /\ row.price = None /\ row.change = None
    /\ row.change_pct = None /\ row.market_state = None /\ row.volume = None
    /\ row.currency = None /\ row.time_jst = None

\* the row holds what the provider record holds
Carries(row, q) ==
    /\ row.symbol = q.symbol
    /\ row.price = q.regularMarketPrice
    /\ row.change = q.regularMarketChange
    /\ row.change_pct = q.regularMarketChangePercent
    /\ row.market_state = q.marketState
    /\ row.volume = q.regularMarketVolume
    /\ row.currency = q.currency
    /\ row.name \in {q.shortName, q.longName}
    /\ (row.time_jst = None) = (q.regularMarketTime \in {None, Some(0)})

\* C15: a requested symbol that no provider record carries has exactly one
\* row, with every field but the symbol absent; a requested symbol that was
\* returned has a row, and each of its rows carries the fields of a provider
\* record of that symbol. Requested 7203.T, 9984.T, AAPL with records for AAPL
\* and 7203.T gives the 3 rows 7203.T, 9984.T, AAPL, the second one empty.
C15_MissingRowsSynthesized ==
    rc_pc = "done" =>
        /\ \A i \in 1..Len(rc_requested) :
               LET sym == rc_requested[i]
               IN  IF sym \notin GotSymbols(rc_results)
                   THEN /\ Cardinality(RowsOf(rc_df, sym)) = 1
                        /\ \A j \in RowsOf(rc_df, sym) : AllAbsent(rc_df[j])
                   ELSE /\ RowsOf(rc_df, sym) # {}
                        /\ \A j \in RowsOf(rc_df, sym) :
                               \E k \in 1..Len(rc_results) :
                                   Carries(rc_df[j], rc_results[k])
        /\ (/\ rc_requested = <<S7203, S9984, SAAPL>>
            /\ rc_results = <<FullQuote(SAAPL), FullQuote(S7203)>>) =>
               /\ Len(rc_df) = 3
               /\ rc_df[1].symbol = S7203 /\ rc_df[1].price = Some(100)
               /\ rc_df[2].symbol = S9984 /\ AllAbsent(rc_df[2])
               /\ rc_df[3].symbol = SAAPL /\ rc_df[3].price = Some(100)

C15_Witness ==
    /\ rc_pc = "done"
    /\ rc_requested = <<S7203, S9984, SAAPL>>
    /\ rc_results = <<FullQuote(SAAPL), FullQuote(S7203)>>
    /\ Len(rc_df) = 3
    /\ AllAbsent(rc_df[2])

(***************************************************************************)
(* The symbols of a text.                                                  *)
(***************************************************************************)
Elems(seq) == {seq[i] : i \in 1..Len(seq)}

StrictlyAscending(seq) == \A i \in 1..(Len(seq) - 1) : StrLess(seq[i], seq[i + 1])

\* the trimmed lines that are not blank and do not start with the comment mark
KeptLines(text) ==
    {l \in {Strip(splitlines(text)[i]) : i \in 1..Len(splitlines(text))} :
        l # <<>> /\ Head(l) # "#"}

Suffixed(s) == s \o <<".", "T">>

\* C16 (as claimed): the result is strictly ascending and holds exactly the
\* values of the kept lines, a line of exactly 4 decimal digits, and no other
\* line, carrying the suffix; no element is empty or starts with '#'.
C16_FourDecimalDigits ==
    nz_pc = "done" =>
        /\ StrictlyAscending(nz_symbols)
        /\ Elems(nz_symbols) =
               {IF Len(l) = 4 /\ Elems(l) \subseteq DecimalDigits THEN Suffixed(l) ELSE l :
                    l \in KeptLines(nz_text)}
        /\ \A sym \in Elems(nz_symbols) : sym # <<>> /\ Head(sym) # "#"

\* C16 (amended): the result is strictly ascending (so free of duplicates) and
\* holds exactly the values of the kept lines, where a line of exactly 4
\* characters that str.isdigit accepts (decimal digits, but also digit
\* characters such as superscripts) carries the suffix; its length is the number
\* of distinct such values; no element is empty or starts with '#'.
C16_FourDigitChars ==
    nz_pc = "done" =>
        LET values == {IF Len(l) = 4 /\ Elems(l) \subseteq DigitChars THEN Suffixed(l) ELSE l :
                           l \in KeptLines(nz_text)}
        IN  /\ StrictlyAscending(nz_symbols)
            /\ Elems(nz_symbols) = values
            /\ Len(nz_symbols) = Cardinality(values)
            /\ \A sym \in Elems(nz_symbols) : sym # <<>> /\ Head(sym) # "#"

\* a 4-digit line and a letter line, in either order: suffixed and sorted
C16_Witness ==
    /\ nz_pc = "done"
    /\ nz_text = <<"A", "\n", "7", "7", "7", "7">>
    /\ nz_symbols = << <<"7", "7", "7", "7", ".", "T">>, <<"A">> >>

(***************************************************************************)
(* The chunks of a fetch.                                                  *)
(***************************************************************************)
RECURSIVE Flatten(_)
Flatten(seqs) == IF seqs = <<>> THEN <<>> ELSE Head(seqs) \o Flatten(Tail(seqs))

\* a is b with some elements left out, the order kept
RECURSIVE IsSubsequence(_, _)
IsSubsequence(a, b) ==
    IF a = <<>> THEN TRUE
    ELSE IF b = <<>> THEN FALSE
    ELSE IF Head(a) = Head(b) THEN IsSubsequence(Tail(a), Tail(b))
    ELSE IsSubsequence(a, Tail(b))

\* C17: while a fetch runs, its chunks are non-empty, of at most chunk_size
\* symbols, all but the last of exactly chunk_size, and their concatenation is
\* the requested list; every quote request of the chunk in work carries exactly
\* that chunk's symbols; the chunks are worked one after another in that order,
\* the next one only when the call for the previous one returned; and the
\* results collected so far are those of the earlier chunks in chunk order.
C17_ChunksInOrder ==
    /\ [](pc # "idle" =>
             /\ fr.chunk_size >= 1
             /\ fr.chunks = chunk_list(fr.symbols, fr.chunk_size)
             /\ Flatten(fr.chunks) = fr.symbols
             /\ \A k \in 1..Len(fr.chunks) :
                    /\ fr.chunks[k] # <<>>
                    /\ Len(fr.chunks[k]) <= fr.chunk_size
                    /\ k < Len(fr.chunks) => Len(fr.chunks[k]) = fr.chunk_size
             /\ obs.chunk = fr.ci
             /\ obs.chunk \in 0..Len(fr.chunks)
             /\ \A i \in 1..Len(obs.reqs) :
                    obs.reqs[i].url = "quote" =>
                        obs.reqs[i].symbols = fr.chunks[obs.chunk]
             /\ obs.chunk >= 1 =>
                    LET before == Flatten(SubSeq(fr.chunks, 1, obs.chunk - 1))
                        got == [i \in 1..Len(fr.all_results) |-> fr.all_results[i].symbol]
                    IN  /\ IsSubsequence(got, before)
                        /\ \A k \in 1..(obs.chunk - 1) :
                               \A i \in 1..(Len(fr.chunks[k]) - 1) :
                                   fr.chunks[k][i] \in Elems(got))
    /\ [][(pc # "idle" /\ pc' # "idle" /\ obs'.chunk # obs.chunk) =>
             /\ obs'.chunk = obs.chunk + 1
             /\ obs.chunk >= 1 =>
                    /\ obs'.q.ended
                    /\ obs'.q.chunk = obs.chunk
                    /\ obs'.q.raised = ""]_vars

\* 3 symbols in chunks of 2: the second, smaller chunk is requested after the
\* two records of the first were collected
C17_Witness ==
    /\ pc = "quote"
    /\ fr.symbols = <<S7203, S9984, SAAPL>>
    /\ fr.chunk_size = 2
    /\ obs.chunk = 2
    /\ Len(fr.all_results) = 2
    /\ obs.reqs[Len(obs.reqs)].symbols = <<SAAPL>>

(***************************************************************************)
(* The empty list.                                                         *)
(***************************************************************************)
\* C18: a press of the fetch button with an empty symbol list stops the run:
\* fetch_quotes_cached is not called, no request of any kind is sent, no
\* session is constructed or stored, and the cache is left as it is.
C18_EmptyShortCircuits ==
    /\ []((obs.call # "none" /\ obs.key[1] = <<>>) =>
             /\ obs.call = "stopped"
             /\ pc = "idle"
             /\ obs.reqs = <<>>
             /\ obs.gc = <<>>
             /\ obs.q = NoCall
             /\ obs.boot = None
             /\ obs.fetches = 0
             /\ obs.result = "none")
    /\ [](obs.call = "stopped" => obs.key[1] = <<>>)
    /\ [][(runs' # runs /\ obs'.key[1] = <<>>) =>
             /\ pc' = "idle"
             /\ obs'.sessions = obs.sessions
             /\ session_state'.yf_sess = session_state.yf_sess
             /\ session_state'.yf_crumb = session_state.yf_crumb
             /\ cache' = cache]_vars

\* the very first run has an empty list: stopped, and still no session
C18_Witness ==
    /\ obs.call = "stopped"
    /\ runs = 1
    /\ obs.sessions = 0
    /\ session_state.yf_sess = 0

(***************************************************************************)
(* The crumb and the cookies it belongs to.                                *)
(***************************************************************************)
\* C19: a crumb that get_crumb returns from its cache was stored after the last
\* landing-page request: no landing-page request has been sent since while it
\* was cached. A landing-page request is sent only while no unexpired crumb is
\* cached, a crumb left over from before such a request is expired or gone, a
\* change of the stored session leaves no crumb, and every quote request
\* carries the crumb its get_crumb call returned.
C19_CachedCrumbFresh ==
    /\ [](\A g \in GcCalls : g.cached => (~g.stale /\ g.ret = g.had /\ g.had # NoCrumb))
    /\ [](obs.stale =>
             ~CrumbValid(session_state.yf_crumb, session_state.yf_crumb_ts, now))
    /\ [](\A i \in 1..Len(obs.reqs) :
             obs.reqs[i].url = "quote" =>
                 \E j \in 1..Len(obs.gc) :
                     obs.gc[j].ret = obs.reqs[i].crumb /\ obs.gc[j].ret # NoCrumb)
    /\ [][(pc' # pc /\ pc' \in {"bootstrap", "rebootstrap", "refresh"}) =>
             ~CrumbValid(session_state'.yf_crumb, session_state'.yf_crumb_ts, now')]_vars
    /\ [][session_state'.yf_sess # session_state.yf_sess =>
             session_state'.yf_crumb = NoCrumb]_vars

\* the chunk before was denied and refreshed cookies and crumb; this chunk's
\* get_crumb returns the crumb stored after that refresh from the cache
C19_Witness ==
    /\ obs.q.ended
    /\ obs.q.raised = ""
    /\ Len(BootReqs(obs.q.reqs)) >= 1
    /\ obs.gc # <<>>
    /\ obs.gc[1].cached
    /\ obs.gc[1].ret = obs.q.gc[Len(obs.q.gc)].ret

(***************************************************************************)
(* The requests of one quote_once call.                                    *)
(***************************************************************************)
RequestsBounded(reqs) ==
    /\ Len(QuoteReqs(reqs)) <= 2
    /\ Len(CrumbReqs(reqs)) <= 2 * CrumbTries
    /\ Len(BootReqs(reqs)) <= 2 * CrumbTries
    /\ Len(reqs) <= 2 + 4 * CrumbTries

\* C20: whatever the upstream answers, a quote_once call sends at most 2 quote
\* requests, at most 4 crumb requests and at most 4 landing-page requests;
\* before chunk 1 there is at most the one creation-time landing-page request;
\* the chunk in work never exceeds the number of chunks; and a fetch that is
\* waiting for an answer always comes to its end, with a table or an error.
C20_BoundedRequests ==
    /\ [](obs.chunk >= 1 => RequestsBounded(obs.reqs))
    /\ [](obs.chunk = 0 => (Len(obs.reqs) <= 1 /\ QuoteReqs(obs.reqs) = <<>>))
    /\ [](RequestsBounded(obs.q.reqs))
    /\ [](obs.chunk <= Len(chunk_list(obs.key[1], Max(obs.key[2], 1))))
    /\ (pc # "idle") ~> (pc = "idle" /\ obs.result \in {"df", "error"})

\* a call that used all it may: 4 crumb and 4 landing-page requests
C20_Witness ==
    /\ obs.q.ended
    /\ Len(CrumbReqs(obs.q.reqs)) = 4
    /\ Len(BootReqs(obs.q.reqs)) = 4
    /\ Len(QuoteReqs(obs.q.reqs)) = 1

====
